---- MODULE Spec2Model ----
(***************************************************************************)
(* Model of examples/memvid_ollama_example.py: the entry point main(), the *)
(* one-shot search_memory() and the interactive loop chat_with_memory()    *)
(* with its streamed consumption of the generation response.              *)
(*                                                                         *)
(* Text is a sequence of one-character strings, so that strip(), lower(),  *)
(* startswith() and slicing are computed as Python computes them.          *)
(* The memvid library and the model server are the environment: what they  *)
(* return (fragments, status codes, streamed lines, exceptions) is chosen  *)
(* nondeterministically from small sets.                                   *)
(***************************************************************************)
EXTENDS Integers, Sequences, FiniteSets, TLC

VARIABLES
    pc,             \* position in main() / chat_with_memory()
    exitCode,       \* value handed to sys.exit(), -1 while running
    entered,        \* chat_with_memory() has been called
    rawLine,        \* the line returned by the last input() of the chat loop
    user_input,     \* rawLine after .strip()
    cmd,            \* branch of the loop body taken for user_input
    context_chunks, \* result of retriever.search(user_input, top_k=2)
    prompt,         \* the prompt built for the current question
    request,        \* JSON body of the generation request of this turn
    net,            \* what the transport did last in this turn
    status_code,    \* response.status_code of this turn, 0 without response
    search_raised,  \* the memory search of this turn raised
    lastSearch,     \* arguments of the search issued in this turn
    consumed,       \* lines yielded by response.iter_lines() in this turn
    output,         \* what this turn printed, in order
    connOpen,       \* the connection of `response` is still checked out
    nRead,          \* input() calls of the chat loop that returned a line
    nSearch,        \* calls of MemvidRetriever.search in this turn
    nPost,          \* calls of requests.post in this turn
    results,        \* what the last call of search_memory() returned
    search_results, \* main(): the result of the demonstration search
    answer,         \* main(): the line typed at the chat offer
    trail           \* main(): the steps passed so far, in order

vars == <<pc, exitCode, entered, rawLine, user_input, cmd, context_chunks,
          prompt, request, net, status_code, search_raised, lastSearch,
          consumed, output, connOpen, nRead, nSearch, nPost, results,
          search_results, answer, trail>>

----------------------------------------------------------------------------
(* Bounds *)

MaxTurns == 2      \* input lines read by one chat session
MaxRecords == 3    \* streamed lines consumed in one turn

----------------------------------------------------------------------------
(* Text helpers: str.strip, str.lower, str.startswith, slicing, str.join *)

UpperCase == <<"A","B","C","D","E","F","G","H","I","J","K","L","M",
               "N","O","P","Q","R","S","T","U","V","W","X","Y","Z">>
LowerCase == <<"a","b","c","d","e","f","g","h","i","j","k","l","m",
               "n","o","p","q","r","s","t","u","v","w","x","y","z">>

WhiteSpace == {" ", "\t", "\n", "\r"}

LowerChar(c) ==
    IF \E i \in 1..Len(UpperCase) : UpperCase[i] = c
    THEN LowerCase[CHOOSE i \in 1..Len(UpperCase) : UpperCase[i] = c]
    ELSE c

Lower(s) == [i \in 1..Len(s) |-> LowerChar(s[i])]

RECURSIVE LStrip(_)
LStrip(s) ==
    IF s # <<>> /\ Head(s) \in WhiteSpace THEN LStrip(Tail(s)) ELSE s

RECURSIVE RStrip(_)
RStrip(s) ==
    IF s # <<>> /\ s[Len(s)] \in WhiteSpace
    THEN RStrip(SubSeq(s, 1, Len(s) - 1))
    ELSE s

\* Strip that leaves the line as typed
StripNone(s) == s

Strip(s) == RStrip(LStrip(s))

StartsWith(s, p) == Len(s) >= Len(p) /\ SubSeq(s, 1, Len(p)) = p

\* s[n:]
SliceFrom(s, n) == SubSeq(s, n + 1, Len(s))

\* s[:n]
SliceTo(s, n) == SubSeq(s, 1, IF Len(s) < n THEN Len(s) ELSE n)

\* Join that drops the separator
RECURSIVE JoinNoSep(_, _)
JoinNoSep(sep, parts) ==
    IF parts = <<>> THEN <<>>
    ELSE parts[1] \o JoinNoSep(sep, Tail(parts))

\* sep.join(parts)
RECURSIVE Join(_, _)
Join(sep, parts) ==
    IF parts = <<>> THEN <<>>
    ELSE IF Len(parts) = 1 THEN parts[1]
    ELSE parts[1] \o sep \o Join(sep, Tail(parts))

----------------------------------------------------------------------------
(* Input lines offered to input() *)

InputLines ==
    { <<"q","u","i","t">>,
      <<"Q","U","I","T">>,
      <<" ","Q","u","i","t"," ">>,
      <<"e","x","i","t">>,
      <<"q">>,
      <<"q","u","i","t","s">>,
      <<"s","e","a","r","c","h"," ","f">>,
      <<"S","e","A","R","C","H"," ","F">>,
      <<"s","e","a","r","c","h"," "," ","f">>,
      <<"s","e","a","r","c","h"," ","q">>,
      <<"s","e","a","r","c","h"," ">>,
      <<>>,
      <<" ","\t">>,
      <<" ","H","i"," ">> }

\* Answers offered to the "start a chat session?" prompt of main()
AnswerLines ==
    { <<"y">>, <<" ","Y","E","S"," ">>, <<"y","e","s">>, <<"n">>, <<>>,
      <<"y","e","p">> }

----------------------------------------------------------------------------
(* The memory store (memvid), a black box *)

PreviewLen == 150

F1 == <<"O","l">>
F2 == <<"R","A","G">>
\* a fragment longer than the preview printed by search_memory
F3 == [i \in 1..(PreviewLen + 1) |-> "v"]

ResultLists == { <<>>, <<F2, F1>>, <<F1, F2, F3>> }

\* what retriever.search(query, top_k=k) may return
SearchReturns(k) == { r \in ResultLists : Len(r) <= k }

DemoQuery == <<"Ollama and language models">>

----------------------------------------------------------------------------
(* Output events *)

Ev(kind, text, n) == [kind |-> kind, text |-> text, n |-> n]

NoSearch == [query |-> <<>>, top_k |-> 0]
NoRequest == [model |-> "", prompt |-> <<>>, stream |-> FALSE]
NoCmd == [tag |-> "None", arg |-> <<>>]

----------------------------------------------------------------------------
(* Streamed lines of the generation response *)

Obj(has, text, done) ==
    [kind |-> "object", has_response |-> has, response |-> text, done |-> done]

Other(kind) ==
    [kind |-> kind, has_response |-> FALSE, response |-> <<>>, done |-> "absent"]

\* JSON objects: with or without a `response` field, `done` absent/false/true
ObjectRecords ==
    { Obj(TRUE, <<"a">>, "false"),
      Obj(TRUE, <<"b">>, "absent"),
      Obj(FALSE, <<>>, "false"),
      Obj(TRUE, <<"c">>, "true"),
      Obj(FALSE, <<>>, "true") }

\* "empty": keep-alive empty line;  "malformed": text that is not JSON;
\* "nonobject": valid JSON that is not an object (a number, a list);
\* "undecodable": bytes that are not UTF-8
Records ==
    ObjectRecords \cup
    { Other("empty"), Other("malformed"), Other("nonobject"),
      Other("undecodable") }

IsObject(rec) == rec.kind = "object"
IsDone(rec) == IsObject(rec) /\ rec.done = "true"

----------------------------------------------------------------------------
(* chat_with_memory: classification of the stripped line *)

QuitWords == { <<"q","u","i","t">>, <<"e","x","i","t">>, <<"q">> }
SearchPrefix == <<"s","e","a","r","c","h"," ">>

Cmd(tag, arg) == [tag |-> tag, arg |-> arg]

\* Classify with the prefix test done on the line as typed
ClassifyPrefixAsTyped(ui) ==
    IF Lower(ui) \in QuitWords THEN Cmd("Quit", <<>>)
    ELSE IF StartsWith(ui, SearchPrefix)
         THEN Cmd("SearchQuery", SliceFrom(ui, 7))
    ELSE IF ui = <<>> THEN Cmd("Noop", <<>>)
    ELSE Cmd("AskQuestion", ui)

\* Classify with the quit test done on the line as typed
ClassifyQuitAsTyped(ui) ==
    IF ui \in QuitWords THEN Cmd("Quit", <<>>)
    ELSE IF StartsWith(Lower(ui), SearchPrefix)
         THEN Cmd("SearchQuery", SliceFrom(ui, 7))
    ELSE IF ui = <<>> THEN Cmd("Noop", <<>>)
    ELSE Cmd("AskQuestion", ui)

\* Classify without the test of line 144
ClassifyNoNoop(ui) ==
    IF Lower(ui) \in QuitWords THEN Cmd("Quit", <<>>)
    ELSE IF StartsWith(Lower(ui), SearchPrefix)
         THEN Cmd("SearchQuery", SliceFrom(ui, 7))
    ELSE Cmd("AskQuestion", ui)

Classify(ui) ==
    IF Lower(ui) \in QuitWords THEN Cmd("Quit", <<>>)
    ELSE IF StartsWith(Lower(ui), SearchPrefix)
         THEN Cmd("SearchQuery", SliceFrom(ui, 7))
    ELSE IF ui = <<>> THEN Cmd("Noop", <<>>)
    ELSE Cmd("AskQuestion", ui)

----------------------------------------------------------------------------
(* search_memory(video_path, index_path, query) *)

Preview(chunk) == SliceTo(chunk, PreviewLen) \o <<"...">>

\* ResultLines numbering from 0, as enumerate() does without a start
ResultLinesFromZero(found) ==
    [i \in 1..Len(found) |-> Ev("result", Preview(found[i]), i - 1)]

\* lines 112-113
ResultLines(found) ==
    [i \in 1..Len(found) |-> Ev("result", Preview(found[i]), i)]

\* outcome: "ctor_raise" (MemvidRetriever(...) raises), "search_raise"
\* (retriever.search raises) or "ok" with the list `ret` returned
SearchMemory(query, outcome, ret) ==
    IF outcome = "ok"
    THEN [out |-> <<Ev("searching", query, 0), Ev("results_header", <<>>, 0)>>
                  \o ResultLines(ret),
          results |-> ret, called |-> TRUE, raised |-> FALSE]
    ELSE [out |-> <<Ev("searching", query, 0), Ev("search_error", <<>>, 0)>>,
          results |-> <<>>, called |-> (outcome = "search_raise"),
          raised |-> TRUE]

\* what one call of search_memory may meet
SearchOutcomes(k) ==
    { [kind |-> "ok", ret |-> r] : r \in SearchReturns(k) } \cup
    { [kind |-> "ctor_raise", ret |-> <<>>],
      [kind |-> "search_raise", ret |-> <<>>] }

----------------------------------------------------------------------------
(* chat_with_memory: prompt and request *)

BuildPrompt(context, question) ==
    <<"Context from memory:\n">> \o context
    \o <<"\n\nUser question: ">> \o question
    \o <<"\n\nPlease answer based on the context provided above. If the context doesn't contain relevant information, say so and provide a general response.">>

ModelName == "llama2"

BuildRequest(p) == [model |-> ModelName, prompt |-> p, stream |-> TRUE]

StatusCodes == {200, 404, 500}

\* StatusNext with a `break` after the HTTP error message
StatusNextFatal(status) == IF status = 200 THEN "stream" ELSE "chat_end"

\* where the loop goes once requests.post returned a response
StatusNext(status) == IF status = 200 THEN "stream" ELSE "await"

\* TransportErrorNext without the `break`
TransportErrorResume == "await"

\* where the loop goes from `except requests.exceptions.RequestException`
TransportErrorNext == "chat_end"

TransportErrorOut ==
    <<Ev("conn_error", <<>>, 0), Ev("conn_hint", <<>>, 0)>>

----------------------------------------------------------------------------
(* chat_with_memory: one line of response.iter_lines() *)

\* Emit with the `done` test placed before the print
EmitUnlessDone(out, chunk) ==
    IF chunk.has_response /\ chunk.done # "true"
    THEN Append(out, Ev("delta", chunk.response, 0))
    ELSE out

\* Emit that prints only what the completion record carries
EmitAtEnd(out, chunk) ==
    IF chunk.has_response /\ chunk.done = "true"
    THEN Append(out, Ev("delta", chunk.response, 0))
    ELSE out

\* lines 180-181
Emit(out, chunk) ==
    IF chunk.has_response
    THEN Append(out, Ev("delta", chunk.response, 0))
    ELSE out

\* lines 182-184
Finish(out, chunk) ==
    IF chunk.done = "true" THEN Append(out, Ev("newline", <<>>, 0)) ELSE out

\* RecordNext with `break` in place of `continue` at line 186
RecordNextBreak(rec) ==
    CASE rec.kind = "empty" -> "stream"
      [] rec.kind = "undecodable" -> "chat_end"
      [] rec.kind = "malformed" -> "await"
      [] rec.kind = "nonobject" -> "chat_end"
      [] rec.kind = "object" -> IF rec.done = "true" THEN "await" ELSE "stream"

\* RecordNext without the `break` of line 184
RecordNextNoBreak(rec) ==
    CASE rec.kind = "empty" -> "stream"
      [] rec.kind = "undecodable" -> "chat_end"
      [] rec.kind = "malformed" -> "stream"
      [] rec.kind = "nonobject" -> "chat_end"
      [] rec.kind = "object" -> "stream"

\* where the loop goes after one line
RecordNext(rec) ==
    CASE rec.kind = "empty" -> "stream"
      [] rec.kind = "undecodable" -> "chat_end"
      [] rec.kind = "malformed" -> "stream"
      [] rec.kind = "nonobject" -> "chat_end"
      [] rec.kind = "object" -> IF rec.done = "true" THEN "await" ELSE "stream"

\* what one line adds to the output
RecordOut(out, rec) ==
    CASE rec.kind = "empty" -> out
      [] rec.kind = "undecodable" -> Append(out, Ev("session_error", <<>>, 0))
      [] rec.kind = "malformed" -> out
      [] rec.kind = "nonobject" -> Append(out, Ev("session_error", <<>>, 0))
      [] rec.kind = "object" -> Finish(Emit(out, rec), rec)

\* CloseNext with a missing completion record treated as fatal
CloseNextFatal == "chat_end"

\* CloseNext of a loop that waits for a completion record and never leaves
CloseNextHang == "hung"

\* where the loop goes when iter_lines() is exhausted
CloseNext == "await"

----------------------------------------------------------------------------
(* Initial state: main() is about to run *)

Init ==
    /\ pc = "check"
    /\ exitCode = -1
    /\ entered = FALSE
    /\ rawLine = <<>>
    /\ user_input = <<>>
    /\ cmd = NoCmd
    /\ context_chunks = <<>>
    /\ prompt = <<>>
    /\ request = NoRequest
    /\ net = "none"
    /\ status_code = 0
    /\ search_raised = FALSE
    /\ lastSearch = NoSearch
    /\ consumed = <<>>
    /\ output = <<>>
    /\ connOpen = FALSE
    /\ nRead = 0
    /\ nSearch = 0
    /\ nPost = 0
    /\ results = <<>>
    /\ search_results = <<>>
    /\ answer = <<>>
    /\ trail = <<>>

turnVars == <<rawLine, user_input, cmd, context_chunks, prompt, request, net,
              status_code, consumed, connOpen, nRead, nPost>>

\* the locals of main()
mainVars == <<search_results, answer, trail>>

----------------------------------------------------------------------------
(* main() *)

PrereqOutcomes == {"ok", "no_memvid", "no_connection", "bad_status", "no_models"}

\* lines 204-206 with check_prerequisites()
MainCheck ==
    /\ pc = "check"
    /\ \E o \in PrereqOutcomes :
         IF o = "ok"
         THEN /\ pc' = "create" /\ exitCode' = exitCode
              /\ trail' = Append(trail, "prereq_ok")
         ELSE /\ pc' = "exit" /\ exitCode' = 1
              /\ trail' = Append(trail, "prereq_failed")
    /\ UNCHANGED <<entered, search_raised, lastSearch, output, nSearch,
                   results, search_results, answer>>
    /\ UNCHANGED turnVars

\* lines 209-212 with create_sample_memory()
MainCreate ==
    /\ pc = "create"
    /\ \E built \in BOOLEAN :
         IF built
         THEN /\ pc' = "demo" /\ exitCode' = exitCode
              /\ trail' = Append(trail, "built")
         ELSE /\ pc' = "exit" /\ exitCode' = 1
              /\ trail' = Append(trail, "build_failed")
    /\ UNCHANGED <<entered, search_raised, lastSearch, output, nSearch,
                   results, search_results, answer>>
    /\ UNCHANGED turnVars

\* lines 215-218, and 225-229 when nothing was found
MainDemoSearch ==
    /\ pc = "demo"
    /\ \E o \in SearchOutcomes(3) :
         LET r == SearchMemory(DemoQuery, o.kind, o.ret) IN
         /\ output' = r.out
         /\ search_raised' = r.raised
         /\ nSearch' = IF r.called THEN nSearch + 1 ELSE nSearch
         /\ lastSearch' = IF r.called
                          THEN [query |-> DemoQuery, top_k |-> 3]
                          ELSE lastSearch
         /\ results' = r.results
         /\ search_results' = r.results
         /\ IF r.results # <<>>
            THEN pc' = "offer" /\ exitCode' = exitCode
            ELSE pc' = "exit" /\ exitCode' = 0
    /\ trail' = Append(trail, "searched")
    /\ UNCHANGED <<entered, answer>>
    /\ UNCHANGED turnVars

\* Accepts taking any answer that begins with y
AcceptsPrefix(line) == StartsWith(Lower(Strip(line)), <<"y">>)

\* line 222
Accepts(line) == Lower(Strip(line)) \in { <<"y">>, <<"y","e","s">> }

\* lines 221-223, and 225-229 when the answer is not y / yes
MainOffer ==
    /\ pc = "offer"
    /\ \E line \in AnswerLines :
         /\ answer' = line
         /\ IF Accepts(line)
            THEN pc' = "chat" /\ exitCode' = exitCode
            ELSE pc' = "exit" /\ exitCode' = 0
    /\ trail' = Append(trail, "answered")
    /\ UNCHANGED <<entered, search_raised, lastSearch, output, nSearch,
                   results, search_results>>
    /\ UNCHANGED turnVars

\* line 221: input() raises EOFError, which nothing in main() catches
MainOfferEOF ==
    /\ pc = "offer"
    /\ pc' = "exit"
    /\ exitCode' = 1
    /\ UNCHANGED <<entered, search_raised, lastSearch, output, nSearch,
                   results>>
    /\ UNCHANGED mainVars
    /\ UNCHANGED turnVars

\* lines 225-229 after chat_with_memory() returned
MainFinish ==
    /\ pc = "chat_end"
    /\ pc' = "exit"
    /\ exitCode' = 0
    /\ UNCHANGED <<entered, search_raised, lastSearch, output, nSearch,
                   results>>
    /\ UNCHANGED mainVars
    /\ UNCHANGED turnVars

----------------------------------------------------------------------------
(* chat_with_memory() *)

\* lines 123-130: the banner and MemvidRetriever(video_path, index_path).
\* search_results and the answer of main() are not read after the call and
\* are dropped from the state here.
ChatStart ==
    /\ pc = "chat"
    /\ entered' = TRUE
    /\ \E ok \in BOOLEAN :
         IF ok
         THEN pc' = "await" /\ output' = <<Ev("banner", <<>>, 0)>>
         ELSE /\ pc' = "chat_end"
              /\ output' = <<Ev("banner", <<>>, 0), Ev("session_error", <<>>, 0)>>
    /\ search_raised' = FALSE
    /\ lastSearch' = NoSearch
    /\ nSearch' = 0
    /\ results' = <<>>
    /\ search_results' = <<>>
    /\ answer' = <<>>
    /\ UNCHANGED <<exitCode, trail>>
    /\ UNCHANGED turnVars

\* lines 133-145: one input line, classified; the quit, search and empty
\* branches run to their end here, a question goes on to the retrieval
ReadLine ==
    /\ pc = "await"
    /\ nRead < MaxTurns
    /\ \E line \in InputLines :
         LET ui == Strip(line)
             c == Classify(ui)
         IN
         /\ rawLine' = line
         /\ user_input' = ui
         /\ cmd' = c
         /\ nRead' = nRead + 1
         /\ CASE c.tag = "Quit" ->
                   /\ pc' = "chat_end"
                   /\ output' = <<Ev("goodbye", <<>>, 0)>>
                   /\ connOpen' = FALSE
                   /\ nSearch' = 0
                   /\ search_raised' = FALSE
                   /\ lastSearch' = NoSearch
                   /\ results' = <<>>
              [] c.tag = "SearchQuery" ->
                   \E o \in SearchOutcomes(3) :
                   LET r == SearchMemory(c.arg, o.kind, o.ret) IN
                   /\ pc' = "await"
                   /\ output' = r.out
                   /\ search_raised' = r.raised
                   /\ nSearch' = IF r.called THEN 1 ELSE 0
                   /\ lastSearch' = IF r.called
                                    THEN [query |-> c.arg, top_k |-> 3]
                                    ELSE NoSearch
                   /\ results' = r.results
                   /\ UNCHANGED connOpen
              [] c.tag = "Noop" ->
                   /\ pc' = "await"
                   /\ output' = <<>>
                   /\ search_raised' = FALSE
                   /\ lastSearch' = NoSearch
                   /\ nSearch' = 0
                   /\ results' = <<>>
                   /\ UNCHANGED connOpen
              [] c.tag = "AskQuestion" ->
                   /\ pc' = "retrieve"
                   /\ output' = <<>>
                   /\ search_raised' = FALSE
                   /\ lastSearch' = NoSearch
                   /\ nSearch' = 0
                   /\ results' = <<>>
                   /\ UNCHANGED connOpen
    /\ context_chunks' = <<>>
    /\ prompt' = <<>>
    /\ request' = NoRequest
    /\ net' = "none"
    /\ status_code' = 0
    /\ consumed' = <<>>
    /\ nPost' = 0
    /\ UNCHANGED <<exitCode, entered>>
    /\ UNCHANGED mainVars

\* line 133: input() raises EOFError, caught at line 195
ReadEOF ==
    /\ pc = "await"
    /\ pc' = "chat_end"
    /\ output' = Append(output, Ev("session_error", <<>>, 0))
    /\ connOpen' = FALSE
    /\ UNCHANGED <<exitCode, entered, rawLine, user_input, cmd, context_chunks,
                   prompt, request, net, status_code, search_raised, lastSearch,
                   consumed, nRead, nSearch, nPost>>
    /\ UNCHANGED results
    /\ UNCHANGED mainVars

\* lines 148-157: retriever.search(user_input, top_k=2) and the prompt;
\* an exception of the search is caught at line 195
Retrieve ==
    /\ pc = "retrieve"
    /\ nSearch' = nSearch + 1
    /\ lastSearch' = [query |-> user_input, top_k |-> 2]
    /\ \E raises \in BOOLEAN, ret \in SearchReturns(2) :
         IF raises
         THEN /\ search_raised' = TRUE
              /\ pc' = "chat_end"
              /\ output' = Append(output, Ev("session_error", <<>>, 0))
              /\ connOpen' = FALSE
              /\ UNCHANGED <<context_chunks, prompt>>
         ELSE /\ search_raised' = FALSE
              /\ pc' = "post"
              /\ context_chunks' = ret
              /\ prompt' = BuildPrompt(Join(<<"\n">>, ret), user_input)
              /\ UNCHANGED <<output, connOpen>>
    /\ UNCHANGED <<exitCode, entered, rawLine, user_input, cmd, request, net,
                   status_code, consumed, nRead, nPost>>
    /\ UNCHANGED results
    /\ UNCHANGED mainVars

\* lines 161-173 and 187-193: the request is sent; the transport refuses,
\* or a response with some status code comes back.
\* The request is made with stream=True and the code neither uses `with` nor
\* calls response.close(): the connection stays checked out (connOpen) until
\* the body has been read to its end (StreamClose), the transport fails, or
\* the response object is dropped when chat_with_memory returns.
Post ==
    /\ pc = "post"
    /\ nPost' = nPost + 1
    /\ request' = BuildRequest(prompt)
    /\ \E refused \in BOOLEAN, status \in StatusCodes :
         IF refused
         THEN /\ net' = "refused"
              /\ status_code' = status_code
              /\ pc' = TransportErrorNext
              /\ output' = Append(output, Ev("assistant", <<>>, 0))
                           \o TransportErrorOut
              /\ connOpen' = FALSE
         ELSE /\ net' = "status"
              /\ status_code' = status
              /\ pc' = StatusNext(status)
              /\ output' = IF status = 200
                           THEN Append(output, Ev("assistant", <<>>, 0))
                           ELSE Append(output, Ev("assistant", <<>>, 0))
                                \o <<Ev("http_error", <<>>, status)>>
              /\ connOpen' = TRUE
    /\ UNCHANGED <<exitCode, entered, rawLine, user_input, cmd, context_chunks,
                   prompt, search_raised, lastSearch, consumed, nRead, nSearch>>
    /\ UNCHANGED results
    /\ UNCHANGED mainVars

\* lines 174-186: iter_lines() yields one more line
StreamRecord ==
    /\ pc = "stream"
    /\ Len(consumed) < MaxRecords
    /\ \E rec \in Records :
         /\ consumed' = Append(consumed, rec)
         /\ output' = RecordOut(output, rec)
         /\ pc' = RecordNext(rec)
         /\ connOpen' = IF RecordNext(rec) = "chat_end" THEN FALSE ELSE connOpen
    /\ net' = "record"
    /\ UNCHANGED <<exitCode, entered, rawLine, user_input, cmd, context_chunks,
                   prompt, request, status_code, search_raised, lastSearch,
                   nRead, nSearch, nPost>>
    /\ UNCHANGED results
    /\ UNCHANGED mainVars

\* line 174: the body ends, iter_lines() is exhausted
StreamClose ==
    /\ pc = "stream"
    /\ net' = "closed"
    /\ pc' = CloseNext
    /\ connOpen' = FALSE
    /\ UNCHANGED <<exitCode, entered, rawLine, user_input, cmd, context_chunks,
                   prompt, request, status_code, search_raised, lastSearch,
                   consumed, output, nRead, nSearch, nPost>>
    /\ UNCHANGED results
    /\ UNCHANGED mainVars

\* line 174: iter_lines() raises a RequestException, caught at line 190
StreamError ==
    /\ pc = "stream"
    /\ net' = "broken"
    /\ pc' = TransportErrorNext
    /\ output' = output \o TransportErrorOut
    /\ connOpen' = FALSE
    /\ UNCHANGED <<exitCode, entered, rawLine, user_input, cmd, context_chunks,
                   prompt, request, status_code, search_raised, lastSearch,
                   consumed, nRead, nSearch, nPost>>
    /\ UNCHANGED results
    /\ UNCHANGED mainVars

----------------------------------------------------------------------------

Next ==
    \/ MainCheck
    \/ MainCreate
    \/ MainDemoSearch
    \/ MainOffer
    \/ MainOfferEOF
    \/ MainFinish
    \/ ChatStart
    \/ ReadLine
    \/ ReadEOF
    \/ Retrieve
    \/ Post
    \/ StreamRecord
    \/ StreamClose
    \/ StreamError

Spec == Init /\ [][Next]_vars

\* The loop is single-threaded and each call blocks until it returns: a
\* search that returns, a request that is answered or refused, and a body
\* that delivers its next line, ends or fails, let the turn take its next
\* step.  Nothing forces the user to type a line.
FairSpec ==
    /\ Spec
    /\ WF_vars(Retrieve)
    /\ WF_vars(Post)
    /\ WF_vars(StreamRecord \/ StreamClose \/ StreamError)

----------------------------------------------------------------------------
(* The session states of the chat loop *)

SessionState ==
    CASE pc = "await" -> "AwaitingInput"
      [] pc \in {"retrieve", "post", "stream"} -> "Dispatching"
      [] entered /\ pc \in {"chat_end", "exit"} -> "Terminated"
      [] OTHER -> "NotStarted"

TypeOK ==
    /\ pc \in {"check", "create", "demo", "offer", "chat", "await", "retrieve",
               "post", "stream", "chat_end", "exit"}
    /\ exitCode \in {-1, 0, 1}
    /\ entered \in BOOLEAN
    /\ connOpen \in BOOLEAN
    /\ Len(consumed) <= MaxRecords
    /\ nRead <= MaxTurns

----------------------------------------------------------------------------
(* Helpers of the properties *)

Last(seq) == seq[Len(seq)]

\* the response text among the printed events, concatenated
RECURSIVE DeltaText(_)
DeltaText(out) ==
    IF out = <<>> THEN <<>>
    ELSE (IF Head(out).kind = "delta" THEN Head(out).text ELSE <<>>)
         \o DeltaText(Tail(out))

\* the `response` fields of the records, concatenated in arrival order
RECURSIVE ConcatResponses(_)
ConcatResponses(recs) ==
    IF recs = <<>> THEN <<>>
    ELSE (IF IsObject(Head(recs)) /\ Head(recs).has_response
          THEN Head(recs).response ELSE <<>>)
         \o ConcatResponses(Tail(recs))

IsMalformed(rec) == rec.kind = "malformed"
NotMalformed(rec) == ~IsMalformed(rec)

\* N JSON objects without done=true, then a completion record
CompletedBody(recs) ==
    /\ recs # <<>>
    /\ IsDone(Last(recs))
    /\ \A i \in 1..(Len(recs) - 1) : IsObject(recs[i]) /\ ~IsDone(recs[i])

TransportFailed == net \in {"refused", "broken"}

----------------------------------------------------------------------------
(* Properties *)

\* C1: when the line consumed completes a body of N JSON objects followed by
\* a completion record, the response text written in the turn is the
\* concatenation of the `response` fields of these records in arrival order
\* (the completion record's included), and the turn ends: the loop is back at
\* input().
C1_CompletedBodyText ==
    [][(pc = "stream" /\ CompletedBody(consumed'))
        => (/\ DeltaText(output') = ConcatResponses(consumed')
            /\ pc' = "await")]_vars

C1_Witness ==
    /\ pc = "await"
    /\ CompletedBody(consumed)
    /\ Len(consumed) = 3
    /\ DeltaText(output) = <<"a", "b", "c">>

\* C2 (as claimed): a generation request answered with a non-success status
\* takes the session to Terminated.
C2_NonSuccessTerminates ==
    [][(pc = "post" /\ net' = "status" /\ status_code' # 200)
        => SessionState' = "Terminated"]_vars

\* C2 (amended): a generation request answered with a non-success status is
\* reported with its status code, no line of the body is consumed, and the
\* session returns to AwaitingInput.
C2_NonSuccessReported ==
    [][(pc = "post" /\ net' = "status" /\ status_code' # 200)
        => (/\ SessionState' = "AwaitingInput"
            /\ Last(output') = Ev("http_error", <<>>, status_code')
            /\ consumed' = <<>>)]_vars

C2_Witness ==
    /\ pc = "await"
    /\ net = "status"
    /\ status_code = 404
    /\ Last(output).kind = "http_error"

\* C3: when MemoryStore.search raises in a SearchQuery turn or in an
\* AskQuestion turn the session does not reach Terminated; the AskQuestion
\* turn goes on to the generation request with an empty context.
C3_RetrievalRecoverable ==
    [][(/\ \/ pc = "retrieve"
           \/ pc = "await" /\ nRead' = nRead + 1
        /\ lastSearch' # NoSearch
        /\ search_raised')
        => (/\ SessionState' # "Terminated"
            /\ pc = "retrieve" => (pc' = "post" /\ context_chunks' = <<>>))]_vars

\* C4: a transport failure while the generation request is opened or its
\* stream is consumed prints the connection error and takes the session to
\* Terminated, after which no input line is read and no search or generation
\* request is issued.
C4_TransportFailureFatal ==
    /\ [][(pc \in {"post", "stream"} /\ TransportFailed')
           => (/\ SessionState' = "Terminated"
               /\ Len(output') >= 2
               /\ SubSeq(output', Len(output') - 1, Len(output'))
                    = TransportErrorOut)]_vars
    /\ [][(SessionState = "Terminated" /\ TransportFailed)
           => (/\ SessionState' = "Terminated"
               /\ nRead' = nRead /\ nSearch' = nSearch /\ nPost' = nPost)]_vars

C4_Witness ==
    /\ SessionState = "Terminated"
    /\ net = "broken"
    /\ DeltaText(output) = <<"a">>
    /\ Last(output).kind = "conn_hint"

C6_CloseWithoutCompletion ==
    [][(pc = "stream" /\ net' = "closed")
        => (/\ SessionState' = "AwaitingInput"
            /\ output' = output
            /\ DeltaText(output') = ConcatResponses(consumed'))]_vars

C6_Witness ==
    /\ pc = "await"
    /\ net = "closed"
    /\ DeltaText(output) = <<"a", "b">>
    /\ \A i \in 1..Len(consumed) : ~IsDone(consumed[i])

\* the rule of C7 as claimed, read in the claim's favour as a rule on the
\* stripped line: only the quit test is case-insensitive
ClaimedClassify(line) ==
    LET t == Strip(line) IN
    IF Lower(t) \in QuitWords THEN Cmd("Quit", <<>>)
    ELSE IF StartsWith(t, SearchPrefix)
         THEN Cmd("SearchQuery", SliceFrom(t, 7))
    ELSE IF t = <<>> THEN Cmd("Noop", <<>>)
    ELSE Cmd("AskQuestion", t)

\* the rule of C7 as amended
AmendedClassify(line) ==
    LET t == Strip(line)
        isQuit == Lower(t) \in QuitWords
        isSearch == Len(t) >= 7 /\ Lower(SubSeq(t, 1, 7)) = SearchPrefix
    IN CASE isQuit -> Cmd("Quit", <<>>)
         [] ~isQuit /\ isSearch -> Cmd("SearchQuery", SubSeq(t, 8, Len(t)))
         [] ~isQuit /\ ~isSearch /\ Len(t) = 0 -> Cmd("Noop", <<>>)
         [] OTHER -> Cmd("AskQuestion", t)

\* C7 (as claimed): the line read is classified by: exact case-insensitive
\* match on quit/exit/q gives Quit; else the prefix "search " gives
\* SearchQuery of the remainder; else an empty or whitespace-only line gives
\* Noop; else AskQuestion of the line.
C7_ClassifiedAsClaimed ==
    cmd # NoCmd => cmd = ClaimedClassify(rawLine)

\* C7 (amended): the line read, with leading and trailing whitespace
\* stripped, is classified by the ordered rule: case-insensitive exact match
\* on quit/exit/q gives Quit; else a case-insensitive prefix "search " gives
\* SearchQuery of what follows the first 7 characters; else the empty line
\* gives Noop; else AskQuestion of the stripped line.
C7_ClassifiedStripped ==
    cmd # NoCmd =>
        /\ cmd = AmendedClassify(rawLine)
        /\ user_input = Strip(rawLine)

C7_Witness ==
    /\ rawLine = <<"S","e","A","R","C","H"," ","F">>
    /\ cmd = Cmd("SearchQuery", <<"F">>)

\* C8: from AwaitingInput, after any earlier turns, a line equal to "quit" in
\* any letter case takes the session to Terminated; once Terminated the
\* session stays so, reads no line and issues no search or generation
\* request.
C8_QuitTerminates ==
    /\ [][(/\ SessionState = "AwaitingInput"
           /\ nRead' = nRead + 1
           /\ Lower(rawLine') = <<"q","u","i","t">>)
           => SessionState' = "Terminated"]_vars
    /\ [][SessionState = "Terminated"
           => (/\ SessionState' = "Terminated"
               /\ nRead' = nRead /\ nSearch' = nSearch /\ nPost' = nPost)]_vars

C8_Witness ==
    /\ SessionState = "Terminated"
    /\ rawLine = <<"Q","U","I","T">>
    /\ nRead = 2

\* C9: whenever the session is in AwaitingInput or Terminated, no connection
\* opened for a generation request is still open.
C9_ConnectionReleased ==
    SessionState \in {"AwaitingInput", "Terminated"} => ~connOpen

\* C10: while the stream is consumed, after each line the response text
\* already written equals the concatenation of the `response` fields of the
\* records consumed so far.
C10_Incremental ==
    pc = "stream" => DeltaText(output) = ConcatResponses(consumed)

C10_Witness ==
    /\ pc = "stream"
    /\ Len(consumed) = 2
    /\ DeltaText(output) = <<"a", "b">>

\* the fragments joined by newlines, built from the last one backwards
RECURSIVE JoinedLines(_)
JoinedLines(frags) ==
    IF frags = <<>> THEN <<>>
    ELSE IF Len(frags) = 1 THEN frags[1]
    ELSE JoinedLines(SubSeq(frags, 1, Len(frags) - 1))
         \o <<"\n">> \o frags[Len(frags)]

\* C11: the generation request of an AskQuestion(q) turn follows exactly one
\* search (q, 2) of that turn, is the only request of the turn, carries the
\* streaming flag, and its prompt embeds q and the returned fragments joined
\* in returned order by newlines (nothing when no fragment is returned).
C11_PromptFromSearch ==
    /\ [][(pc = "post" /\ nPost' = nPost + 1)
           => (/\ cmd.tag = "AskQuestion"
               /\ nSearch = 1
               /\ lastSearch = [query |-> cmd.arg, top_k |-> 2]
               /\ nPost' = 1
               /\ request'.stream = TRUE
               /\ request'.prompt
                    = BuildPrompt(JoinedLines(context_chunks), cmd.arg))]_vars
    /\ [](cmd.tag = "AskQuestion" => (nSearch <= 1 /\ nPost <= 1))

C11_Witness ==
    /\ pc = "stream"
    /\ cmd = Cmd("AskQuestion", <<"H","i">>)
    /\ context_chunks = <<F2, F1>>
    /\ request.prompt = BuildPrompt(<<"R","A","G","\n","O","l">>, <<"H","i">>)
    /\ nSearch = 1
    /\ nPost = 1

\* the line search_memory prints for one fragment
ExpectedPreview(f) ==
    IF Len(f) > 150 THEN SubSeq(f, 1, 150) \o <<"...">> ELSE f \o <<"...">>

\* C12: a SearchQuery(q) turn whose search returns calls the search once
\* with (q, 3), prints after the header one line per returned fragment,
\* numbered from 1 in returned order (none for an empty result), issues no
\* generation request and returns to AwaitingInput without an error.
C12_SearchTurn ==
    [][(/\ pc = "await"
        /\ nRead' = nRead + 1
        /\ cmd'.tag = "SearchQuery"
        /\ ~search_raised')
        => (/\ nSearch' = 1
            /\ lastSearch' = [query |-> cmd'.arg, top_k |-> 3]
            /\ output' = <<Ev("searching", cmd'.arg, 0),
                           Ev("results_header", <<>>, 0)>>
                         \o [i \in 1..Len(results') |->
                               Ev("result", ExpectedPreview(results'[i]), i)]
            /\ nPost' = 0
            /\ request' = NoRequest
            /\ SessionState' = "AwaitingInput")]_vars

C12_Witness ==
    /\ pc = "await"
    /\ cmd = Cmd("SearchQuery", <<"f">>)
    /\ results = <<F1, F2, F3>>
    /\ Len(output) = 5
    /\ output[5].n = 3
    /\ Len(output[5].text) = 151

\* C13: a turn on an empty or whitespace-only line calls no search, issues
\* no generation request, prints nothing, leaves the connection, the exit
\* code and the locals of main() as they were, and returns to AwaitingInput.
C13_NoopTurn ==
    [][(/\ pc = "await"
        /\ nRead' = nRead + 1
        /\ \A i \in 1..Len(rawLine') : rawLine'[i] \in WhiteSpace)
        => (/\ SessionState' = "AwaitingInput"
            /\ nSearch' = 0
            /\ lastSearch' = NoSearch
            /\ nPost' = 0
            /\ request' = NoRequest
            /\ output' = <<>>
            /\ connOpen' = connOpen
            /\ UNCHANGED <<exitCode, entered, trail>>)]_vars

C13_Witness ==
    /\ pc = "await"
    /\ nRead = 2
    /\ rawLine = <<" ", "\t">>
    /\ cmd.tag = "Noop"
    /\ connOpen

\* C14: when main() has ended, the exit code is 1 exactly when the
\* prerequisite check failed or the memory store could not be built.
C14_ExitCode ==
    pc = "exit" =>
        /\ exitCode \in {0, 1}
        /\ exitCode = 1 <=>
             (trail # <<>> /\ Last(trail) \in {"prereq_failed", "build_failed"})

\* C15: the line that carries done=true has its `response` written and ends
\* the consumption of the stream; no line is consumed after a completion
\* record.
C15_CompletionEnds ==
    /\ [][(/\ pc = "stream"
           /\ Len(consumed') = Len(consumed) + 1
           /\ IsDone(Last(consumed')))
           => (/\ pc' # "stream"
               /\ DeltaText(output')
                    = DeltaText(output)
                      \o (IF Last(consumed').has_response
                          THEN Last(consumed').response ELSE <<>>))]_vars
    /\ [](\A i \in 1..(Len(consumed) - 1) : ~IsDone(consumed[i]))

C15_Witness ==
    /\ pc = "await"
    /\ Len(consumed) = 2
    /\ IsDone(consumed[2])
    /\ DeltaText(output) = <<"a", "c">>

\* C16: provided the search returns and the stream is finite, a turn that is
\* under way (Dispatching) eventually ends in AwaitingInput or Terminated.
C16_TurnTerminates ==
    (SessionState = "Dispatching")
        ~> (SessionState \in {"AwaitingInput", "Terminated"})

C16_Witness ==
    /\ pc = "stream"
    /\ Len(consumed) = MaxRecords
    /\ \E i \in 1..Len(consumed) : consumed[i].kind = "malformed"
    /\ \E i \in 1..Len(consumed) : consumed[i].kind = "empty"
    /\ \E i \in 1..Len(consumed) : IsObject(consumed[i])

\* C17: every search issued by the chat loop has a non-empty query, with
\* top_k 3 in a SearchQuery turn and 2 in an AskQuestion turn; no line gives
\* a SearchQuery with an empty remainder.
C17_QueryNonEmpty ==
    entered =>
        /\ cmd.tag = "SearchQuery" => cmd.arg # <<>>
        /\ lastSearch # NoSearch =>
             /\ lastSearch.query # <<>>
             /\ cmd.tag \in {"SearchQuery", "AskQuestion"}
             /\ lastSearch.top_k = (IF cmd.tag = "SearchQuery" THEN 3 ELSE 2)

C17_Witness ==
    /\ rawLine = <<"s","e","a","r","c","h"," ">>
    /\ cmd.tag = "AskQuestion"
    /\ lastSearch = [query |-> <<"s","e","a","r","c","h">>, top_k |-> 2]

\* C18: chat_with_memory is called only after the prerequisite check
\* succeeded, the memory was built, the demonstration search returned at
\* least one fragment and the answer was y or yes, in this order; before
\* that call no line of the chat loop is read and no generation request is
\* issued.
C18_ChatGated ==
    /\ [][(~entered /\ entered')
           => (/\ trail = <<"prereq_ok", "built", "searched", "answered">>
               /\ search_results # <<>>
               /\ Lower(Strip(answer)) \in { <<"y">>, <<"y","e","s">> })]_vars
    /\ [](~entered => (/\ nRead = 0
                       /\ nPost = 0
                       /\ rawLine = <<>>
                       /\ request = NoRequest))

C18_Witness ==
    /\ entered
    /\ trail = <<"prereq_ok", "built", "searched", "answered">>
    /\ nRead = 1
    /\ nPost = 1

====
